---------------------------- MODULE Spec2Model ----------------------------
(***************************************************************************)
(* Model of knlambert/unit-tests-demo: Execute (main.go) fetches the       *)
(* public IP through an IPGetter and writes it through a FileWriter.       *)
(* Two binaries are modelled: the test binary, in which Execute is called  *)
(* with scripted collaborators (two calls, interleaved), and the program,  *)
(* in which main calls Execute with Ipify and FileRepository.              *)
(***************************************************************************)
EXTENDS Naturals, Sequences, FiniteSets

\* ------------------------------------------------------------------ bounds
\* Longest string a scripted IPGetter or the ipify response carries.
MaxLen == 2

\* ------------------------------------------------------------------ values
\* The nil error.
Nil == "nil"
\* No value yet (a call that has not returned).
Pending == "pending"

\* Byte values strings are made of: ' ' and '1'.
ByteValues == {32, 49}
\* Go strings: byte sequences.
Strings == UNION {[1..n -> ByteValues] : n \in 0..MaxLen}

\* *string: the nil pointer, or a pointer to a string.
NilPtr == <<>>
PtrTo(s) == <<s>>
Deref(p) == p[1]

Files == {"output.txt", "ip.txt"}
FetchErrs == {"FetchError1", "FetchError2"}
PersistErrs == {"PersistError1", "PersistError2"}

\* Execute invocations: the one main makes, and the test binary's two.
MainCall == "main"
TestCalls == {"t1", "t2"}
Calls == {MainCall} \cup TestCalls

\* Every (pointer, error) pair the IPGetter signature permits.
IPGetterResults ==
    [ptr : {NilPtr} \cup {PtrTo(s) : s \in Strings}, err : {Nil} \cup FetchErrs]

\* Every error the FileWriter signature permits.
FileWriterResults == {Nil} \cup PersistErrs

\* Command lines: the positional arguments after the program name.
ArgLists == {<<>>} \cup {<<f>> : f \in Files} \cup {<<f, g>> : f, g \in Files}

\* ------------------------------------------------------- Execute's pieces
\* Each invocation has its own parameters and locals (outputFile, publicIP,
\* err): the frame of call c.
FrameShared(c) == "t1"
Frame(c) == c

\* if err != nil
ErrCheckNever(err) == FALSE
ErrCheck(err) == err /= Nil

\* return err
FetchFailReturnNil(err) == Nil
FetchFailReturn(err) == err

\* []byte(s): a fresh slice holding the bytes of s, in order.
BytesTrimmed(s) == [i \in 1..(IF Len(s) > 0 /\ s[Len(s)] = 32 THEN Len(s) - 1 ELSE Len(s)) |-> s[i]]
Bytes(s) == [i \in 1..Len(s) |-> s[i]]

\* The literal 0644.
PermOwnerOnly == 6 * 64
Perm == 6 * 64 + 4 * 8 + 4

\* fileWriter.Write(outputFile, []byte(*publicIP), 0644): the arguments.
WriteArgs(outputFile, publicIP) ==
    [filename |-> outputFile, data |-> Bytes(Deref(publicIP)), perm |-> Perm]

\* return fileWriter.Write(...)
WriteReturnSwallowed(werr) == Nil
WriteReturn(werr) == werr

\* ---------------------------------------------------------------- Ipify
\* JSON values of an object's fields.
StringV(s) == [t |-> "string", s |-> s]
NumberV == [t |-> "number", s |-> <<>>]
NullV == [t |-> "null", s |-> <<>>]
IpValues == {StringV(s) : s \in Strings} \cup {NumberV, NullV}
OtherValues == {StringV(<<49>>), NumberV}

\* A JSON object: its fields.
NoFields == [k \in {} |-> NullV]
Objects ==
    {NoFields}
    \cup {[k \in {"ip"} |-> v] : v \in IpValues}
    \cup {[k \in {"other"} |-> w] : w \in OtherValues}
    \cup {[k \in {"ip", "other"} |-> IF k = "ip" THEN v ELSE w] :
            v \in IpValues, w \in OtherValues}

\* Response bodies: not JSON, the literal null, an array, or an object.
Bodies ==
    {[kind |-> k, fields |-> NoFields] : k \in {"malformed", "null", "array"}}
    \cup {[kind |-> "object", fields |-> o] : o \in Objects}

\* What the network gives: http.Get's error, io.ReadAll's error, the body.
HttpOutcomes ==
    {[getErr |-> "http.Get error", readErr |-> Nil, body |-> [kind |-> "malformed", fields |-> NoFields]],
     [getErr |-> Nil, readErr |-> "io.ReadAll error", body |-> [kind |-> "malformed", fields |-> NoFields]]}
    \cup {[getErr |-> Nil, readErr |-> Nil, body |-> b] : b \in Bodies}

\* json.Unmarshal(body, &result) with result a map[string]string: the error
\* and the map. A null field value is stored as the zero string; a value
\* that is no string is a type error (reported after the whole object is
\* decoded); the literal null leaves the nil map.
Unmarshal(body) ==
    CASE body.kind = "malformed" -> [err |-> "json.SyntaxError", result |-> NoFields]
      [] body.kind = "array" -> [err |-> "json.UnmarshalTypeError", result |-> NoFields]
      [] body.kind = "null" -> [err |-> Nil, result |-> NoFields]
      [] OTHER ->
          [err |-> IF \E k \in DOMAIN body.fields : body.fields[k].t = "number"
                   THEN "json.UnmarshalTypeError" ELSE Nil,
           result |-> [k \in DOMAIN body.fields |-> body.fields[k].s]]

\* result["ip"]: the zero string when the key is absent.
MapIndex(result, key) == IF key \in DOMAIN result THEN result[key] ELSE <<>>

\* Ipify.GetPublicIP on a network outcome.
IpifyGetPublicIP(h) ==
    IF h.getErr /= Nil THEN [ptr |-> NilPtr, err |-> h.getErr]
    ELSE IF h.readErr /= Nil THEN [ptr |-> NilPtr, err |-> h.readErr]
    ELSE LET u == Unmarshal(h.body) IN
         IF u.err /= Nil THEN [ptr |-> NilPtr, err |-> u.err]
         ELSE [ptr |-> PtrTo(MapIndex(u.result, "ip")), err |-> Nil]

\* ----------------------------------------------------------------- main
\* log.Fatal(err) exits with status 1; returning from main exits with 0.
MainExitCodeAlwaysZero(err) == 0
MainExitCode(err) == IF err /= Nil THEN 1 ELSE 0

\* ---------------------------------------------------------------- state
VARIABLES
    pc,         \* where each Execute call is
    frame,      \* each frame's parameter and locals
    events,     \* per call: the collaborator calls and returns, in order
    callArg,    \* per call: the outputFile its caller passed
    getRes,     \* per call: what its IPGetter returned
    writeLog,   \* per call: the arguments its FileWriter received
    writeRes,   \* per call: what its FileWriter returned
    ret,        \* per call: what Execute returned
    mainpc,     \* where main is
    args,       \* os.Args[1:]
    exitCode,   \* the process's exit status
    stderr,     \* what the process printed to standard error
    http        \* the network outcome Ipify saw

vars == <<pc, frame, events, callArg, getRes, writeLog, writeRes, ret,
          mainpc, args, exitCode, stderr, http>>

mainVars == <<mainpc, args, exitCode, stderr>>

NoFrame == [outputFile |-> "", publicIP |-> NilPtr, err |-> Nil]
NoGetRes == [ptr |-> NilPtr, err |-> Pending]
NoHttp == [getErr |-> Pending, readErr |-> Pending, body |-> [kind |-> "malformed", fields |-> NoFields]]

InitCalls ==
    /\ frame = [f \in Calls |-> NoFrame]
    /\ events = [c \in Calls |-> <<>>]
    /\ callArg = [c \in Calls |-> ""]
    /\ getRes = [c \in Calls |-> NoGetRes]
    /\ writeLog = [c \in Calls |-> <<>>]
    /\ writeRes = [c \in Calls |-> Pending]
    /\ ret = [c \in Calls |-> Pending]
    /\ exitCode = 0
    /\ stderr = <<>>
    /\ http = NoHttp

\* The test binary: Execute is about to be called by each test.
InitTest ==
    /\ InitCalls
    /\ pc = [c \in Calls |-> IF c \in TestCalls THEN "ready" ELSE "absent"]
    /\ mainpc = "absent"
    /\ args = <<>>

\* The program: main is about to run on some command line.
InitMain ==
    /\ InitCalls
    /\ pc = [c \in Calls |-> "absent"]
    /\ mainpc = "start"
    /\ args \in ArgLists

Init == InitTest \/ InitMain

\* -------------------------------------------------------------- Execute
\* Execute(ipGetter, fileWriter, outputFile) is entered and calls
\* ipGetter.GetPublicIP().
ExecuteEnter(c, outputFile) ==
    /\ pc' = [pc EXCEPT ![c] = "AwaitingFetch"]
    /\ frame' = [frame EXCEPT ![Frame(c)].outputFile = outputFile]
    /\ callArg' = [callArg EXCEPT ![c] = outputFile]
    /\ events' = [events EXCEPT ![c] = @ \o <<"Execute", "GetPublicIP">>]
    /\ UNCHANGED <<getRes, writeLog, writeRes, ret>>

\* GetPublicIP returned r: Execute returns its error, or dereferences the
\* pointer and calls fileWriter.Write.
ExecuteAfterFetch(c, r) ==
    LET fr == [frame[Frame(c)] EXCEPT !.publicIP = r.ptr, !.err = r.err] IN
    /\ pc[c] = "AwaitingFetch"
    /\ getRes' = [getRes EXCEPT ![c] = r]
    /\ frame' = [frame EXCEPT ![Frame(c)] = fr]
    /\ IF ErrCheck(fr.err)
       THEN /\ pc' = [pc EXCEPT ![c] = "returned"]
            /\ ret' = [ret EXCEPT ![c] = FetchFailReturn(fr.err)]
            /\ events' = [events EXCEPT ![c] = @ \o <<"GetPublicIP.ret", "return">>]
            /\ UNCHANGED writeLog
       ELSE IF fr.publicIP = NilPtr
       THEN /\ pc' = [pc EXCEPT ![c] = "panicked"]
            /\ events' = [events EXCEPT ![c] = @ \o <<"GetPublicIP.ret", "panic">>]
            /\ UNCHANGED <<ret, writeLog>>
       ELSE /\ pc' = [pc EXCEPT ![c] = "AwaitingPersist"]
            /\ writeLog' = [writeLog EXCEPT ![c] = Append(@, WriteArgs(fr.outputFile, fr.publicIP))]
            /\ events' = [events EXCEPT ![c] = @ \o <<"GetPublicIP.ret", "Write">>]
            /\ UNCHANGED ret
    /\ UNCHANGED <<callArg, writeRes>>

\* Write returned werr: Execute returns it.
ExecuteAfterWrite(c, werr) ==
    /\ pc[c] = "AwaitingPersist"
    /\ writeRes' = [writeRes EXCEPT ![c] = werr]
    /\ ret' = [ret EXCEPT ![c] = WriteReturn(werr)]
    /\ pc' = [pc EXCEPT ![c] = "returned"]
    /\ events' = [events EXCEPT ![c] = @ \o <<"Write.ret", "return">>]
    /\ UNCHANGED <<frame, callArg, getRes, writeLog>>

\* ------------------------------------------------------- the test binary
\* A test calls Execute with mocks and an output file.
TestExecute(c) ==
    /\ c \in TestCalls
    /\ pc[c] = "ready"
    /\ \E f \in Files : ExecuteEnter(c, f)
    /\ UNCHANGED <<mainVars, http>>

\* The mock IPGetter returns what it was scripted to.
MockGetPublicIP(c) ==
    /\ c \in TestCalls
    /\ \E r \in IPGetterResults : ExecuteAfterFetch(c, r)
    /\ UNCHANGED <<mainVars, http>>

\* The mock FileWriter returns what it was scripted to.
MockWrite(c) ==
    /\ c \in TestCalls
    /\ \E werr \in FileWriterResults : ExecuteAfterWrite(c, werr)
    /\ UNCHANGED <<mainVars, http>>

\* ----------------------------------------------------------- the program
\* main evaluates os.Args[1] (a panic when there is none: exit status 2)
\* and calls Execute.
Main ==
    /\ mainpc = "start"
    /\ IF Len(args) < 1
       THEN /\ mainpc' = "exited"
            /\ exitCode' = 2
            /\ stderr' = <<"panic: index out of range">>
            /\ UNCHANGED <<pc, frame, events, callArg, getRes, writeLog, writeRes, ret>>
       ELSE /\ mainpc' = "inExecute"
            /\ ExecuteEnter(MainCall, args[1])
            /\ UNCHANGED <<exitCode, stderr>>
    /\ UNCHANGED <<args, http>>

\* Ipify.GetPublicIP returns.
IpifyReturns ==
    /\ mainpc = "inExecute"
    /\ \E h \in HttpOutcomes :
        /\ http' = h
        /\ ExecuteAfterFetch(MainCall, IpifyGetPublicIP(h))
    /\ UNCHANGED mainVars

\* FileRepository.Write returns ioutil.WriteFile's error.
FileRepositoryWrite ==
    /\ mainpc = "inExecute"
    /\ \E werr \in FileWriterResults : ExecuteAfterWrite(MainCall, werr)
    /\ UNCHANGED <<mainVars, http>>

\* Execute is back in main: log.Fatal(err), or the end of main.
MainAfterExecute ==
    /\ mainpc = "inExecute"
    /\ pc[MainCall] \in {"returned", "panicked"}
    /\ mainpc' = "exited"
    /\ IF pc[MainCall] = "panicked"
       THEN /\ exitCode' = 2
            /\ stderr' = <<"panic: nil pointer dereference">>
       ELSE /\ exitCode' = MainExitCode(ret[MainCall])
            /\ stderr' = IF ret[MainCall] /= Nil THEN <<ret[MainCall]>> ELSE <<>>
    /\ UNCHANGED <<pc, frame, events, callArg, getRes, writeLog, writeRes, ret, args, http>>

Next ==
    \/ \E c \in TestCalls : TestExecute(c)
    \/ \E c \in TestCalls : MockGetPublicIP(c)
    \/ \E c \in TestCalls : MockWrite(c)
    \/ Main
    \/ IpifyReturns
    \/ FileRepositoryWrite
    \/ MainAfterExecute

Spec == Init /\ [][Next]_vars

\* --------------------------------------------------------------- claims
\* How often event e occurs in a call's events.
Count(seq, e) == Cardinality({i \in DOMAIN seq : seq[i] = e})
\* The first position of event e.
First(seq, e) == CHOOSE i \in DOMAIN seq : seq[i] = e /\ \A j \in 1..(i - 1) : seq[j] /= e
\* The call's IPGetter has returned an error.
FetchFailed(c) == getRes[c].err \notin {Nil, Pending}
\* The call's IPGetter has returned no error.
FetchSucceeded(c) == getRes[c].err = Nil
\* The spec's states of a run.
Done(c) == pc[c] = "returned" /\ ret[c] = Nil
Failed(c) == pc[c] = "returned" /\ ret[c] \notin {Nil, Pending}

\* C1: whenever GetPublicIP returns a non-nil error, Execute returns exactly
\* that error and Write is invoked zero times, whatever the output file, the
\* error and the pointer returned beside it.
C1_FetchFailureShortCircuits ==
    \A c \in Calls :
        FetchFailed(c) =>
            /\ pc[c] = "returned"
            /\ ret[c] = getRes[c].err
            /\ writeLog[c] = <<>>
            /\ Count(events[c], "Write") = 0

\* A fetch that failed with an error beside a non-nil pointer, on each of
\* the two output files and with two different errors.
C1_Witness ==
    /\ getRes["t1"] = [ptr |-> PtrTo(<<49>>), err |-> "FetchError1"]
    /\ getRes["t2"] = [ptr |-> NilPtr, err |-> "FetchError2"]
    /\ callArg["t1"] /= callArg["t2"]
    /\ ret["t1"] = "FetchError1" /\ ret["t2"] = "FetchError2"

\* C2: in every Execute run that returns nil, GetPublicIP was called exactly
\* once, Write was called exactly once, and GetPublicIP had returned before
\* Write was called.
C2_ExactlyOnceInOrder ==
    \A c \in Calls :
        Done(c) =>
            /\ Count(events[c], "GetPublicIP") = 1
            /\ Count(events[c], "GetPublicIP.ret") = 1
            /\ Count(events[c], "Write") = 1
            /\ Count(events[c], "Write.ret") = 1
            /\ Len(writeLog[c]) = 1
            /\ First(events[c], "GetPublicIP") < First(events[c], "GetPublicIP.ret")
            /\ First(events[c], "GetPublicIP.ret") < First(events[c], "Write")

\* A run that returned nil.
C2_Witness ==
    \E c \in TestCalls : Done(c) /\ writeRes[c] = Nil /\ Len(writeLog[c]) = 1

\* C3: when GetPublicIP succeeds and Write returns a non-nil error, Execute
\* returns exactly that error; and Execute returns nil if and only if both
\* GetPublicIP and Write returned nil errors.
C3_PersistFailureSurfaces ==
    \A c \in Calls :
        /\ (FetchSucceeded(c) /\ writeRes[c] \notin {Nil, Pending}) =>
                (pc[c] = "returned" /\ ret[c] = writeRes[c])
        /\ pc[c] = "returned" =>
                (ret[c] = Nil <=> (FetchSucceeded(c) /\ writeRes[c] = Nil))

\* A run whose Write failed, next to one whose Write failed otherwise.
C3_Witness ==
    /\ FetchSucceeded("t1") /\ writeRes["t1"] = "PersistError1" /\ ret["t1"] = "PersistError1"
    /\ FetchSucceeded("t2") /\ writeRes["t2"] = "PersistError2" /\ ret["t2"] = "PersistError2"

\* C4: for every string s a successful GetPublicIP returns, the empty string
\* included, the data Execute passes to Write has the length of s and the
\* bytes of s, each in its place.
C4_PayloadFidelity ==
    \A c \in Calls :
        (FetchSucceeded(c) /\ getRes[c].ptr /= NilPtr) =>
            LET s == Deref(getRes[c].ptr) IN
            /\ Len(writeLog[c]) = 1
            /\ Len(writeLog[c][1].data) = Len(s)
            /\ \A i \in 1..Len(s) : writeLog[c][1].data[i] = s[i]

\* The empty string written by one call, a string with blanks at both ends
\* by the other.
C4_Witness ==
    /\ getRes["t1"] = [ptr |-> PtrTo(<<>>), err |-> Nil]
    /\ Len(writeLog["t1"]) = 1 /\ writeLog["t1"][1].data = <<>>
    /\ FetchSucceeded("t2") /\ getRes["t2"].ptr /= NilPtr
    /\ Len(Deref(getRes["t2"].ptr)) = MaxLen
    /\ Deref(getRes["t2"].ptr)[1] = 32 /\ Deref(getRes["t2"].ptr)[MaxLen] = 32
    /\ Len(writeLog["t2"]) = 1

\* C5: the filename of every Write call is the outputFile Execute was given,
\* and its permission is 0644 (420).
C5_DestinationPassThrough ==
    \A c \in Calls :
        \A i \in DOMAIN writeLog[c] :
            /\ writeLog[c][i].filename = callArg[c]
            /\ writeLog[c][i].perm = 420

\* A Write call on each of the two output files.
C5_Witness ==
    /\ Len(writeLog["t1"]) = 1 /\ callArg["t1"] = "output.txt"
    /\ Len(writeLog["t2"]) = 1 /\ callArg["t2"] = "ip.txt"

\* C6: every run is in one of the states AwaitingFetch, AwaitingPersist,
\* Done, Failed; once no collaborator call is outstanding it is Done or
\* Failed; it calls GetPublicIP exactly once and Write at most once.
C6_LinearStateMachine ==
    \A c \in Calls :
        pc[c] \notin {"absent", "ready"} =>
            /\ pc[c] \in {"AwaitingFetch", "AwaitingPersist"} \/ Done(c) \/ Failed(c)
            /\ Count(events[c], "GetPublicIP") = 1
            /\ Count(events[c], "Write") <= 1
            /\ Count(events[c], "Write") = 1 => FetchSucceeded(c)

\* C7: Ipify.GetPublicIP, having read the body, returns an error when the
\* body is malformed JSON or an object without an ip field, and returns
\* success only with the value of a present ip field.
C7_IpifyFailsOnAbsentOrMalformed ==
    (http.getErr = Nil /\ http.readErr = Nil) =>
        LET b == http.body
            r == getRes[MainCall]
        IN  /\ (b.kind = "malformed" \/ (b.kind = "object" /\ "ip" \notin DOMAIN b.fields))
                    => r.err \notin {Nil, Pending}
            /\ r.err = Nil =>
                    /\ b.kind = "object"
                    /\ "ip" \in DOMAIN b.fields
                    /\ b.fields["ip"].t = "string" => r.ptr = PtrTo(b.fields["ip"].s)

\* C8: the process exits with a non-zero status having printed Execute's
\* error if and only if Execute returned a non-nil error; it exits with
\* status zero when Execute returned nil; and, given a first positional
\* argument, Execute is called once, with that argument as the destination.
C8_CommandSurface ==
    mainpc = "exited" =>
        /\ (exitCode /= 0 /\ stderr = <<ret[MainCall]>>) <=> Failed(MainCall)
        /\ Done(MainCall) => (exitCode = 0 /\ stderr = <<>>)
        /\ Len(args) >= 1 =>
                /\ Count(events[MainCall], "Execute") = 1
                /\ callArg[MainCall] = args[1]
                /\ pc[MainCall] = "returned"

\* The process has exited on a Write error, on the first of two arguments.
C8_Witness ==
    /\ mainpc = "exited"
    /\ Len(args) = 2 /\ args[1] /= args[2]
    /\ ret[MainCall] = "PersistError1"
    /\ exitCode = 1

\* What a call returns when run alone, from its own collaborators' results.
AloneResult(g, w) == IF g.err /= Nil THEN g.err ELSE w

\* C9: with two Execute calls interleaved, each on its own IPGetter,
\* FileWriter and outputFile, each call's Write arguments and return value
\* are those it has when run alone: functions of its own collaborators'
\* results and its own outputFile.
C9_NoInterference ==
    \A c \in TestCalls :
        /\ writeLog[c] /= <<>> =>
                writeLog[c] = <<[filename |-> callArg[c],
                                 data |-> Deref(getRes[c].ptr),
                                 perm |-> 420]>>
        /\ pc[c] = "returned" => ret[c] = AloneResult(getRes[c], writeRes[c])
        /\ pc[c] \in {"AwaitingFetch", "AwaitingPersist"} => ret[c] = Pending

\* Both calls are inside Execute at once, on different files and values, one
\* of them returned from while the other is still waiting on its Write.
C9_Witness ==
    /\ pc["t1"] = "AwaitingPersist" /\ pc["t2"] = "returned"
    /\ events["t2"] = <<"Execute", "GetPublicIP", "GetPublicIP.ret", "Write", "Write.ret", "return">>
    /\ callArg["t1"] /= callArg["t2"]
    /\ getRes["t1"].ptr /= getRes["t2"].ptr
    /\ ret["t2"] = "PersistError2"

\* C10: whatever the IPGetter returns, Execute ends by returning nil or an
\* error, and never aborts on a nil pointer.
C10_NeverAborts ==
    \A c \in Calls : pc[c] /= "panicked"

=============================================================================
